---- MODULE Spec2Model ----
(***************************************************************************)
(* Render-job orchestration and progress reconciliation.                   *)
(*                                                                         *)
(* The persisted project row (status, video_url, settings.renderId,        *)
(* settings.renderParts) is the one piece of shared state.  It is written  *)
(* by the trigger endpoint, the webhook endpoint, the status endpoint and  *)
(* the client's reset button.  Every handler is a read-modify-write with   *)
(* awaits in between, so each handler is split at its database calls: the  *)
(* value it read is kept in the handler's own snapshot.                    *)
(*                                                                         *)
(* A render id is a natural number (0 = undefined), a url is the render id *)
(* of the job whose output it names (0 = undefined), a progress is a       *)
(* percentage (-1 = undefined).                                            *)
(***************************************************************************)
EXTENDS Integers, Sequences, FiniteSets, TLC

VARIABLES project, issued, wh, poll, trigger, client, resp, served, numScenes,
          sceneDuration, loop

vars == <<project, issued, wh, poll, trigger, client, resp, served, numScenes, sceneDuration, loop>>

(* ------------------------------ bounds --------------------------------- *)

\* Number of jobs the rendering service accepts in one behaviour.
MaxJobs == 2

\* Number of requests (webhook, status, trigger, page) being served at one time.
MaxInFlight == 2

\* Number of webhook deliveries, of status requests and of resets in one
\* behaviour.
MaxWebhooks == 2
MaxPolls == 1
MaxResets == 1

\* Scene count of a project that fits one job, and of one that is split.
SmallProject == 150
LargeProject == 250

\* Scene count of a project that the parallel dispatch splits.
HugeProject == 450

\* Largest scene count of a project handed to the chunker.
MaxScenes == 650

\* A scene duration stored in milliseconds.
LongDuration == 4500

\* Number of status requests of one page that have not returned.
MaxLoopRequests == 2

(* ------------------------- program constants --------------------------- *)

\* Scenes per job of the part trigger, and of the parallel dispatch
MAX_SCENES == 200
MAX_SCENES_GET == 300

\* Lambdas aimed at per job by the part trigger, and by the parallel dispatch
TARGET_CONCURRENCY == 150
TARGET_CONCURRENCY_GET == 100

(* ------------------------------ helpers -------------------------------- *)

NoRender == 0
NoUrl == 0
NoProgress == -1

\* duration: null
NoDuration == 0

\* Math.ceil(a / b) for a >= 0, b > 0
Ceil(a, b) == (a + b - 1) \div b

\* `https://${bucket}.s3.${region}.amazonaws.com/renders/${renderId}/out.mp4`
\* The service writes the output of job r under renders/r/out.mp4 of the
\* single bucket, which is also what the success webhook carries as outKey.
VideoUrl(renderId) == renderId

\* parts.findIndex(p => p.renderId === renderId); 0 when there is none
FindIndex(parts, renderId) ==
    IF \E i \in DOMAIN parts : parts[i].renderId = renderId
    THEN CHOOSE i \in DOMAIN parts :
            /\ parts[i].renderId = renderId
            /\ \A j \in DOMAIN parts : parts[j].renderId = renderId => i <= j
    ELSE 0

\* parts.every(p => p.status === 'done')
AllDone(parts) == \A i \in DOMAIN parts : parts[i].status = "done"

\* The idle placeholder of part pNum
IdlePart(pNum) ==
    [part |-> pNum, status |-> "idle", renderId |-> NoRender,
     url |-> NoUrl, progress |-> NoProgress]

\* The project row after creation: a draft without render state
NewProject ==
    [status |-> "draft", video_url |-> NoUrl, renderId |-> NoRender,
     hasParts |-> FALSE, renderParts |-> <<>>]

\* The render ids the rendering service has handed out
Issued == 1..issued

(* --------------------------- initial state ----------------------------- *)

\* The status of the answer the webhook endpoint gave last (0 = none yet)
NoAnswer == 0
Unauthorized == 401
Received == 200

IdleWebhook ==
    [pc |-> "idle", type |-> "none", renderId |-> NoRender, snap |-> NewProject,
     answer |-> NoAnswer]

\* The trigger endpoint at rest.  results holds, per chunk of a parallel
\* dispatch, the render id the service returned (0 = pending, -1 = rejected).
IdlePost ==
    [pc |-> "idle", part |-> 0, renderId |-> NoRender, results |-> <<>>,
     snap |-> NewProject, totalFrames |-> 0, framesPerLambda |-> 0]

\* The page before it has loaded the project row
ClosedPage == [pc |-> "idle", snap |-> NewProject]

IdlePoll == [pc |-> "idle", snap |-> NewProject]

\* The poll loop of the page before its effect has run: no interval is set
\* (active), the rendering flag is off, no status request is in flight, and
\* no response has ended the loop (stopped).
IdleLoop == [active |-> FALSE, rendering |-> FALSE, inFlight |-> 0, stopped |-> FALSE]

\* No status response under way.  A response carries, besides its body, the
\* outcome of each query the pass made ("none" where it made none).
NoResponse ==
    [status |-> "none", progress |-> 0, withParts |-> FALSE, parts |-> <<>>,
     videoUrl |-> NoUrl, observed |-> <<>>]

Init ==
    /\ numScenes \in {SmallProject, LargeProject}
    /\ project = NewProject
    /\ issued = 0
    /\ served = [webhooks |-> 0, polls |-> 0, resets |-> 0]
    /\ wh = IdleWebhook
    /\ poll = IdlePoll
    /\ trigger = IdlePost
    /\ client = ClosedPage
    /\ resp = NoResponse
    /\ sceneDuration = NoDuration
    /\ loop = IdleLoop

\* The number of requests between their first read and their last write
InFlight ==
    (IF wh.pc = "idle" THEN 0 ELSE 1) + (IF poll.pc = "idle" THEN 0 ELSE 1)
        + (IF trigger.pc = "idle" THEN 0 ELSE 1) + (IF client.pc = "idle" THEN 0 ELSE 1)

(* ------------------------- webhook endpoint ---------------------------- *)

\* process.env.REMOTION_WEBHOOK_SECRET || 'temp_secret', and the secrets a
\* sender may sign with
WebhookSecret == "temp_secret"
Secrets == {WebhookSecret, "other_secret"}

WebhookTypes == {"success", "error", "timeout"}

\* The request body, and the x-remotion-signature header a sender who holds
\* secret computes for body (an HMAC, which no other secret or body yields)
Body(type, renderId) == [type |-> type, renderId |-> renderId]
Hmac(secret, body) == [secret |-> secret, body |-> body]

\* req.headers.get('x-remotion-signature') of a request without the header
NoSignature == [secret |-> "none", body |-> Body("none", NoRender)]

\* The signature headers a request with this body may carry: none, or the
\* HMAC under either secret of this body or of the body before it was altered
Signatures(type, renderId) ==
    {NoSignature} \cup
        {Hmac(secret, Body(signed, renderId)) : secret \in Secrets, signed \in WebhookTypes}

\* validateWebhookSignature({secret, body, signatureHeader}) does not throw
ValidateWebhookSignature(secret, body, signatureHeader) ==
    signatureHeader = Hmac(secret, body)

\* The handler for a request without signature header, or with a signature
\* that does not validate: it answers 401.
WebhookReject(type, renderId, signature) ==
    /\ wh.pc = "idle"
    /\ InFlight < MaxInFlight
    /\ served.webhooks < MaxWebhooks
    /\ \/ signature = NoSignature
       \/ ~ValidateWebhookSignature(WebhookSecret, Body(type, renderId), signature)
    /\ served' = [served EXCEPT !.webhooks = @ + 1]
    /\ wh' = [IdleWebhook EXCEPT !.answer = Unauthorized]
    /\ UNCHANGED <<project, issued, poll, trigger, client, resp, numScenes, sceneDuration, loop>>

\* WebhookRead without the signature check
WebhookReadUnchecked(type, renderId, signature) ==
    /\ wh.pc = "idle"
    /\ InFlight < MaxInFlight
    /\ served.webhooks < MaxWebhooks
    /\ served' = [served EXCEPT !.webhooks = @ + 1]
    /\ wh' = [IdleWebhook EXCEPT
                 !.pc = "read",
                 !.type = IF type = "success" THEN "success" ELSE "error",
                 !.renderId = renderId, !.snap = project]
    /\ UNCHANGED <<project, issued, poll, trigger, client, resp, numScenes, sceneDuration, loop>>

\* The webhook handler up to its read of the project row: the signature
\* check has passed.
WebhookRead(type, renderId, signature) ==
    /\ wh.pc = "idle"
    /\ signature # NoSignature
    /\ ValidateWebhookSignature(WebhookSecret, Body(type, renderId), signature)
    /\ InFlight < MaxInFlight
    /\ served.webhooks < MaxWebhooks
    /\ served' = [served EXCEPT !.webhooks = @ + 1]
    /\ wh' = [IdleWebhook EXCEPT
                 !.pc = "read",
                 !.type = IF type = "success" THEN "success" ELSE "error",
                 !.renderId = renderId, !.snap = project]
    /\ UNCHANGED <<project, issued, poll, trigger, client, resp, numScenes, sceneDuration, loop>>

\* SuccessUpdate with the completion test made before the part is marked
SuccessUpdateStaleTest(cur, snap, renderId) ==
    IF snap.hasParts
    THEN LET idx == FindIndex(snap.renderParts, renderId)
             parts == [snap.renderParts EXCEPT ![idx].status = "done",
                                               ![idx].url = VideoUrl(renderId)]
         IN  IF idx = 0 THEN cur
             ELSE [cur EXCEPT !.renderId = snap.renderId,
                              !.hasParts = TRUE,
                              !.renderParts = parts,
                              !.status = IF AllDone(snap.renderParts) THEN "done" ELSE @]
    ELSE [cur EXCEPT !.status = "done", !.video_url = VideoUrl(renderId)]

\* The row a success webhook writes, from the row it read (snap) and the
\* row as persisted now (cur): an update names only the columns it sets.
SuccessUpdate(cur, snap, renderId) ==
    IF snap.hasParts
    THEN LET idx == FindIndex(snap.renderParts, renderId)
             parts == [snap.renderParts EXCEPT ![idx].status = "done",
                                               ![idx].url = VideoUrl(renderId)]
         IN  IF idx = 0 THEN cur
             ELSE [cur EXCEPT !.renderId = snap.renderId,
                              !.hasParts = TRUE,
                              !.renderParts = parts,
                              !.status = IF AllDone(parts) THEN "done" ELSE @]
    ELSE [cur EXCEPT !.status = "done", !.video_url = VideoUrl(renderId)]

\* ErrorUpdate that marks the project as failed without a matching part
ErrorUpdateUnmatched(cur, snap, renderId) ==
    IF snap.hasParts
    THEN LET idx == FindIndex(snap.renderParts, renderId)
             parts == [snap.renderParts EXCEPT ![idx].status = "error"]
         IN  IF idx = 0 THEN [cur EXCEPT !.status = "error"]
             ELSE [cur EXCEPT !.renderId = snap.renderId,
                              !.hasParts = TRUE,
                              !.renderParts = parts,
                              !.status = "error"]
    ELSE [cur EXCEPT !.status = "error"]

\* The row an error or timeout webhook writes.
ErrorUpdate(cur, snap, renderId) ==
    IF snap.hasParts
    THEN LET idx == FindIndex(snap.renderParts, renderId)
             parts == [snap.renderParts EXCEPT ![idx].status = "error"]
         IN  IF idx = 0 THEN cur
             ELSE [cur EXCEPT !.renderId = snap.renderId,
                              !.hasParts = TRUE,
                              !.renderParts = parts,
                              !.status = "error"]
    ELSE [cur EXCEPT !.status = "error"]

WebhookWrite ==
    /\ wh.pc = "read"
    /\ project' = IF wh.type = "success"
                  THEN SuccessUpdate(project, wh.snap, wh.renderId)
                  ELSE ErrorUpdate(project, wh.snap, wh.renderId)
    /\ wh' = [IdleWebhook EXCEPT !.answer = Received]
    /\ UNCHANGED <<issued, poll, trigger, client, resp, served, numScenes, sceneDuration, loop>>

\* The deliveries of the rendering service, which signs every body with the
\* secret the trigger handed it.
Webhook ==
    \/ \E type \in WebhookTypes, renderId \in Issued :
          WebhookRead(type, renderId, Hmac(WebhookSecret, Body(type, renderId)))
    \/ WebhookWrite

\* The requests of any sender.
WebhookRequest ==
    \E type \in WebhookTypes, renderId \in Issued :
        \E signature \in Signatures(type, renderId) :
            \/ WebhookReject(type, renderId, signature)
            \/ WebhookRead(type, renderId, signature)

(* ----------------------- trigger endpoint (POST) ----------------------- *)

\* An index as Array.prototype.slice takes it for a list of length n: a
\* negative index counts from the end, and both ends are clamped.
SliceIndex(i, n) ==
    IF i < 0 THEN (IF n + i > 0 THEN n + i ELSE 0)
    ELSE IF i < n THEN i ELSE n

\* scenes.slice((partNumber - 1) * MAX_SCENES, ...).length; the whole list
\* when no part is selected (partNumber = 0 stands for undefined).
ScenesToRender(n, partNumber) ==
    IF partNumber = 0 THEN n
    ELSE LET startIndex == (partNumber - 1) * MAX_SCENES
             endIndex == startIndex + MAX_SCENES
             from == SliceIndex(startIndex, n)
             to == SliceIndex(endIndex, n)
         IN  IF to > from THEN to - from ELSE 0

\* scenes.slice(startIndex, endIndex) of part partNumber, as the half-open
\* range of scene indices it holds (slice clamps both ends to the length).
SliceOfPart(n, partNumber) ==
    LET startIndex == (partNumber - 1) * MAX_SCENES
        endIndex == startIndex + MAX_SCENES
    IN  [from |-> SliceIndex(startIndex, n), to |-> SliceIndex(endIndex, n)]

\* Math.ceil(d * 30) of one scene, d = scene.duration || 5 in seconds, a
\* value above 300 being taken as milliseconds.
FramesOfScene(duration) ==
    LET d == IF duration = NoDuration THEN 5 ELSE duration
    IN  IF d > 300 THEN Ceil(d * 30, 1000) ELSE d * 30

\* scenesToRender.reduce(...) || 300, all scenes having the same duration
TotalFrames(count, duration) ==
    LET sum == count * FramesOfScene(duration)
    IN  IF sum = 0 THEN 300 ELSE sum

Max(a, b) == IF a > b THEN a ELSE b

\* DynamicFramesPerLambda without the floor of 60 frames
DynamicFramesPerLambdaNoFloor(totalFrames) ==
    LET minFramesForLimit == Ceil(totalFrames, 200)
        optimalFrames == Ceil(totalFrames, TARGET_CONCURRENCY)
    IN  Max(minFramesForLimit, optimalFrames)

\* Math.max(60, minFramesForLimit, optimalFrames)
DynamicFramesPerLambda(totalFrames) ==
    LET minFramesForLimit == Ceil(totalFrames, 200)
        optimalFrames == Ceil(totalFrames, TARGET_CONCURRENCY)
    IN  Max(60, Max(minFramesForLimit, optimalFrames))

\* Math.ceil(scenes.length / MAX_SCENES)
TotalParts(n) == Ceil(n, MAX_SCENES)

\* Insertion of entry e into a list sorted by part number.
InsertByPart(sorted, e) ==
    LET k == Cardinality({i \in DOMAIN sorted : sorted[i].part <= e.part})
    IN  SubSeq(sorted, 1, k) \o <<e>> \o SubSeq(sorted, k + 1, Len(sorted))

\* currentParts.sort((a, b) => a.part - b.part)
RECURSIVE SortByPart(_)
SortByPart(parts) ==
    IF parts = <<>> THEN <<>>
    ELSE InsertByPart(SortByPart(SubSeq(parts, 1, Len(parts) - 1)), parts[Len(parts)])

\* The initialised collection: totalParts entries, an existing entry kept
\* where one carries the part number, an idle placeholder elsewhere.
InitializeParts(existingParts, totalParts) ==
    [idx \in 1..totalParts |->
        IF \E i \in DOMAIN existingParts : existingParts[i].part = idx
        THEN existingParts[CHOOSE i \in DOMAIN existingParts :
                 /\ existingParts[i].part = idx
                 /\ \A j \in DOMAIN existingParts :
                        existingParts[j].part = idx => i <= j]
        ELSE IdlePart(idx)]

\* The renderParts collection a part trigger writes, from the row it read.
UpdatedParts(snap, n, partNumber, renderId) ==
    LET existingParts == IF snap.hasParts THEN snap.renderParts ELSE <<>>
        totalParts == TotalParts(n)
        currentParts ==
            IF Len(existingParts) = 0 \/ Len(existingParts) # totalParts
            THEN InitializeParts(existingParts, totalParts)
            ELSE existingParts
        newPartEntry == [part |-> partNumber, status |-> "rendering", renderId |-> renderId]
        written ==
            IF partNumber \in DOMAIN currentParts
            THEN [currentParts EXCEPT ![partNumber] =
                     [@ EXCEPT !.part = newPartEntry.part,
                               !.status = newPartEntry.status,
                               !.renderId = newPartEntry.renderId]]
            ELSE Append(currentParts,
                        [IdlePart(partNumber) EXCEPT !.status = newPartEntry.status,
                                                     !.renderId = newPartEntry.renderId])
    IN  SortByPart(written)

\* The part selectors the page sends: one Export button per part when the
\* project needs more than one job, else one button without a selector.
PartSelectors(n) == IF n > MAX_SCENES THEN 1..TotalParts(n) ELSE {0}

\* The part selectors a request body may carry: body.part is taken as it
\* comes, so beside the parts of the project a caller may name a part
\* before the first or after the last one.
ApiSelectors(n) == {-1} \cup 1..(TotalParts(n) + 1)

\* The handler up to its submission: it reads the project row and the
\* ready scenes and marks the project as rendering.
PostRead(partNumber) ==
    /\ trigger.pc = "idle"
    /\ InFlight < MaxInFlight
    /\ issued < MaxJobs
    /\ numScenes > 0
    /\ project' = [project EXCEPT !.status = "rendering"]
    /\ trigger' = [IdlePost EXCEPT !.pc = "marked", !.part = partNumber, !.snap = project]
    /\ UNCHANGED <<issued, wh, poll, client, resp, served, numScenes, sceneDuration, loop>>

\* renderMediaOnLambda resolves: the service accepted the job.
PostSubmit ==
    /\ trigger.pc = "marked"
    /\ ScenesToRender(numScenes, trigger.part) > 0
    /\ issued' = issued + 1
    /\ LET totalFrames == TotalFrames(ScenesToRender(numScenes, trigger.part), sceneDuration)
       IN  trigger' = [trigger EXCEPT
                          !.pc = "submitted", !.renderId = issued + 1,
                          !.totalFrames = totalFrames,
                          !.framesPerLambda = DynamicFramesPerLambda(totalFrames)]
    /\ UNCHANGED <<project, wh, poll, client, resp, served, numScenes, sceneDuration, loop>>

\* The try block throws (no scenes for the part, or the submission is
\* rejected or unreachable): the catch marks the project as failed.
PostFail ==
    /\ trigger.pc = "marked"
    /\ project' = [project EXCEPT !.status = "error"]
    /\ trigger' = IdlePost
    /\ UNCHANGED <<issued, wh, poll, client, resp, served, numScenes, sceneDuration, loop>>

\* The database update after an accepted submission.
PostWrite ==
    /\ trigger.pc = "submitted"
    /\ project' =
          IF trigger.part # 0
          THEN [project EXCEPT
                   !.status = "rendering",
                   !.renderId = trigger.snap.renderId,
                   !.hasParts = TRUE,
                   !.renderParts = UpdatedParts(trigger.snap, numScenes, trigger.part, trigger.renderId)]
          ELSE [project EXCEPT
                   !.status = "rendering",
                   !.renderId = trigger.renderId,
                   !.hasParts = trigger.snap.hasParts,
                   !.renderParts = trigger.snap.renderParts]
    /\ trigger' = IdlePost
    /\ UNCHANGED <<issued, wh, poll, client, resp, served, numScenes, sceneDuration, loop>>

Post ==
    \/ \E partNumber \in PartSelectors(numScenes) : PostRead(partNumber)
    \/ PostSubmit
    \/ PostFail
    \/ PostWrite


(* ------------------ trigger endpoint (parallel dispatch) --------------- *)

\* for (let i = 0; i < scenes.length; i += MAX_SCENES)
\*     chunks.push(scenes.slice(i, i + MAX_SCENES))
\* A chunk is the half-open range of scene indices it holds.
RECURSIVE ChunksFrom(_, _)
ChunksFrom(n, i) ==
    IF i < n
    THEN <<[from |-> i, to |-> IF i + MAX_SCENES_GET < n THEN i + MAX_SCENES_GET ELSE n]>>
             \o ChunksFrom(n, i + MAX_SCENES_GET)
    ELSE <<>>

Chunks(n) == ChunksFrom(n, 0)

ShouldSplit(n) == n > MAX_SCENES_GET

\* The number of jobs one request submits
Submissions(n) == IF ShouldSplit(n) THEN Len(Chunks(n)) ELSE 1

\* results.map(r => ({ id, bucketName, renderId, status: 'rendering', part, frameCount }))
PartsOfResults(results) ==
    [k \in DOMAIN results |->
        [part |-> k, status |-> "rendering", renderId |-> results[k],
         url |-> NoUrl, progress |-> NoProgress]]

\* chunkScenes.reduce(...) of chunk k, without a default
ChunkTotalFrames(n, k) ==
    (Chunks(n)[k].to - Chunks(n)[k].from) * FramesOfScene(sceneDuration)

\* The frames of submission k of the request: of chunk k, or of all scenes
SubmittedFrames(n, k) ==
    IF ShouldSplit(n) THEN ChunkTotalFrames(n, k) ELSE TotalFrames(n, sceneDuration)

\* Math.max(60, minFrames, optFrames), in the split and in the single path
FramesPerLambdaGet(totalFrames) ==
    LET minFrames == Ceil(totalFrames, 200)
        optFrames == Ceil(totalFrames, TARGET_CONCURRENCY_GET)
    IN  Max(60, Max(minFrames, optFrames))

\* The handler up to its submissions: it reads the project row and the
\* ready scenes, marks the project as rendering and starts every submission.
GetRead ==
    /\ trigger.pc = "idle"
    /\ InFlight < MaxInFlight
    /\ issued + Submissions(numScenes) <= MaxJobs
    /\ numScenes > 0
    /\ project' = [project EXCEPT !.status = "rendering"]
    /\ trigger' = [IdlePost EXCEPT !.pc = "dispatching",
                                   !.results = [k \in 1..Submissions(numScenes) |-> 0],
                                   !.snap = project]
    /\ UNCHANGED <<issued, wh, poll, client, resp, served, numScenes, sceneDuration, loop>>

\* One renderMediaOnLambda promise settles: the service accepted the job and
\* returned a render id, or the promise rejected.
GetSubmit(k, accepted) ==
    /\ trigger.pc = "dispatching"
    /\ k \in DOMAIN trigger.results
    /\ trigger.results[k] = 0
    /\ issued' = IF accepted THEN issued + 1 ELSE issued
    /\ trigger' = [trigger EXCEPT
                      !.results[k] = IF accepted THEN issued + 1 ELSE -1,
                      !.totalFrames = SubmittedFrames(numScenes, k),
                      !.framesPerLambda = FramesPerLambdaGet(SubmittedFrames(numScenes, k))]
    /\ UNCHANGED <<project, wh, poll, client, resp, served, numScenes, sceneDuration, loop>>

\* await Promise.all(renderPromises) (or the single await) and the update
\* that follows; a rejection is caught and marks the project as failed.
GetFinish ==
    /\ trigger.pc = "dispatching"
    /\ \A k \in DOMAIN trigger.results : trigger.results[k] # 0
    /\ project' =
          IF \E k \in DOMAIN trigger.results : trigger.results[k] = -1
          THEN [project EXCEPT !.status = "error"]
          ELSE IF ShouldSplit(numScenes)
          THEN [project EXCEPT !.status = "rendering",
                               !.renderId = trigger.snap.renderId,
                               !.hasParts = TRUE,
                               !.renderParts = PartsOfResults(trigger.results)]
          ELSE [project EXCEPT !.status = "rendering",
                               !.renderId = trigger.results[1],
                               !.hasParts = trigger.snap.hasParts,
                               !.renderParts = trigger.snap.renderParts]
    /\ trigger' = IdlePost
    /\ UNCHANGED <<issued, wh, poll, client, resp, served, numScenes, sceneDuration, loop>>

Get ==
    \/ GetRead
    \/ \E k \in 1..Submissions(numScenes), accepted \in BOOLEAN : GetSubmit(k, accepted)
    \/ GetFinish

(* ------------- trigger endpoint (variant with a single job) ------------ *)

\* scenes.reduce((acc, scene) => acc + Math.ceil((scene.duration || 5) * 30), 0) || 300
TotalFramesV1(count, duration) ==
    LET sum == count * ((IF duration = NoDuration THEN 5 ELSE duration) * 30)
    IN  IF sum = 0 THEN 300 ELSE sum

\* Math.max(60, Math.ceil(totalFrames / TARGET_CONCURRENCY))
DynamicFramesPerLambdaV1(totalFrames) ==
    Max(60, Ceil(totalFrames, TARGET_CONCURRENCY_GET))

\* The handler up to its submission: it reads the project row and the ready
\* scenes and marks the project as rendering.
GetReadV1 ==
    /\ trigger.pc = "idle"
    /\ InFlight < MaxInFlight
    /\ issued < MaxJobs
    /\ numScenes > 0
    /\ project' = [project EXCEPT !.status = "rendering"]
    /\ trigger' = [IdlePost EXCEPT !.pc = "rendering", !.snap = project]
    /\ UNCHANGED <<issued, wh, poll, client, resp, served, numScenes, sceneDuration, loop>>

\* renderMediaOnLambda settles for the one job of all scenes.
GetSubmitV1(accepted) ==
    /\ trigger.pc = "rendering"
    /\ trigger.framesPerLambda = 0
    /\ issued' = IF accepted THEN issued + 1 ELSE issued
    /\ LET totalFrames == TotalFramesV1(numScenes, sceneDuration)
       IN  trigger' = [trigger EXCEPT
                          !.renderId = IF accepted THEN issued + 1 ELSE -1,
                          !.totalFrames = totalFrames,
                          !.framesPerLambda = DynamicFramesPerLambdaV1(totalFrames)]
    /\ UNCHANGED <<project, wh, poll, client, resp, served, numScenes, sceneDuration, loop>>

\* The update that saves the render id, or the catch of a rejection.
GetFinishV1 ==
    /\ trigger.pc = "rendering"
    /\ trigger.framesPerLambda # 0
    /\ project' =
          IF trigger.renderId = -1
          THEN [project EXCEPT !.status = "error"]
          ELSE [project EXCEPT !.status = "rendering",
                               !.renderId = trigger.renderId,
                               !.hasParts = trigger.snap.hasParts,
                               !.renderParts = trigger.snap.renderParts]
    /\ trigger' = IdlePost
    /\ UNCHANGED <<issued, wh, poll, client, resp, served, numScenes, sceneDuration, loop>>

GetV1 ==
    \/ GetReadV1
    \/ \E accepted \in BOOLEAN : GetSubmitV1(accepted)
    \/ GetFinishV1

(* -------------------------- status endpoint ---------------------------- *)

\* What one getRenderProgress call returns: a progress below 1, a finished
\* render, a fatal error, or an exception (the request failed, or the
\* service no longer finds the job).
Outcomes == {"progress", "done", "fatal", "throw", "notfound"}

\* overallProgress of a render that has not finished, in percent
RunningProgress == 40

\* progress.overallProgress, in percent (0 when the call threw)
OverallProgress(outcome) ==
    IF outcome = "done" THEN 100
    ELSE IF outcome \in {"progress", "fatal"} THEN RunningProgress
    ELSE 0

\* Whether the pass queries the rendering service for this part.
Queries(p) == p.status \notin {"done", "error"} /\ p.renderId # NoRender

\* One iteration of the loop over the parts: the part as the pass leaves it.
PolledPart(p, outcome) ==
    IF ~Queries(p) THEN p
    ELSE IF outcome = "done"
         THEN [p EXCEPT !.status = "done", !.url = VideoUrl(p.renderId)]
    ELSE IF outcome = "fatal" THEN [p EXCEPT !.status = "error"]
    ELSE p

\* partProgress of one iteration, in percent
PartProgress(p, outcome) ==
    IF p.status = "done" THEN 100
    ELSE IF p.status = "error" THEN 0
    ELSE IF Queries(p) THEN OverallProgress(outcome)
    ELSE 0

\* The entry of partsDetails pushed by one iteration
PartDetail(p, outcome) ==
    [part |-> p.part, status |-> PolledPart(p, outcome).status,
     renderId |-> NoRender, url |-> PolledPart(p, outcome).url,
     progress |-> PartProgress(p, outcome)]

RECURSIVE SumProgress(_, _, _)
SumProgress(parts, outcomes, i) ==
    IF i = 0 THEN 0
    ELSE SumProgress(parts, outcomes, i - 1) + PartProgress(parts[i], outcomes[i])

\* The response of a pass over a split project
SplitResponse(snap, outcomes) ==
    LET parts == snap.renderParts IN
    [status |-> snap.status,
     withParts |-> TRUE,
     progress |-> IF Len(parts) > 0
                  THEN SumProgress(parts, outcomes, Len(parts)) \div Len(parts)
                  ELSE 0,
     parts |-> [i \in DOMAIN parts |-> PartDetail(parts[i], outcomes[i])],
     videoUrl |-> NoUrl,
     observed |-> [i \in DOMAIN parts |->
                      IF Queries(parts[i]) THEN outcomes[i] ELSE "none"]]

\* The row a pass over a split project leaves, from the row it read.
SplitUpdate(cur, snap, outcomes) ==
    LET parts == [i \in DOMAIN snap.renderParts |->
                      PolledPart(snap.renderParts[i], outcomes[i])]
        hasUpdates == \E i \in DOMAIN parts :
                         /\ Queries(snap.renderParts[i])
                         /\ outcomes[i] \in {"done", "fatal"}
    IN  IF hasUpdates
        THEN [cur EXCEPT !.renderId = snap.renderId,
                         !.hasParts = TRUE,
                         !.renderParts = parts,
                         !.status = IF AllDone(parts) THEN "done" ELSE @]
        ELSE cur

\* The response of a pass over a project with a single job
LegacyResponse(snap, outcome) ==
    IF snap.renderId = NoRender
    THEN [NoResponse EXCEPT !.status = snap.status, !.observed = <<"none">>]
    ELSE IF outcome = "done"
         THEN [NoResponse EXCEPT !.status = "done", !.progress = 100,
                                 !.videoUrl = VideoUrl(snap.renderId),
                                 !.observed = <<outcome>>]
    ELSE IF outcome \in {"throw", "notfound"}
         THEN [NoResponse EXCEPT !.status = "error", !.observed = <<outcome>>]
    ELSE [NoResponse EXCEPT !.status = snap.status,
                            !.progress = OverallProgress(outcome),
                            !.observed = <<outcome>>]

\* The row a pass over a project with a single job leaves.
LegacyUpdate(cur, snap, outcome) ==
    IF snap.renderId = NoRender THEN cur
    ELSE IF outcome = "done"
         THEN [cur EXCEPT !.status = "done", !.video_url = VideoUrl(snap.renderId)]
    ELSE IF outcome \in {"throw", "notfound"} THEN [cur EXCEPT !.status = "error"]
    ELSE cur

\* What the page does with a status response: the parts replace the local
\* collection, and a status other than rendering ends the local render.
ClientAfter(cl, data, withParts) ==
    LET withData == IF withParts
                    THEN [cl EXCEPT !.hasParts = TRUE, !.renderParts = data.parts]
                    ELSE cl
    IN  IF data.status # "rendering"
        THEN [withData EXCEPT !.status = data.status,
                              !.video_url = IF data.videoUrl # NoUrl
                                            THEN data.videoUrl ELSE @]
        ELSE withData

\* StatusRead without the return for a project that is done or failed
StatusReadNoShortCircuit ==
    /\ poll.pc = "idle"
    /\ resp = NoResponse
    /\ poll' = [pc |-> "read", snap |-> project]
    /\ resp' = resp
    /\ UNCHANGED <<project, issued, wh, trigger, numScenes, sceneDuration>>

\* The handler up to its read of the project row.  A project that is done
\* or failed is answered at once.
StatusRead ==
    /\ poll.pc = "idle"
    /\ resp = NoResponse
    /\ IF project.status \in {"done", "error"}
       THEN /\ resp' = [NoResponse EXCEPT
                           !.status = project.status,
                           !.progress = IF project.status = "done" THEN 100 ELSE 0]
            /\ poll' = poll
       ELSE /\ poll' = [pc |-> "read", snap |-> project]
            /\ resp' = resp
    /\ UNCHANGED <<project, issued, wh, trigger, numScenes, sceneDuration>>

\* A status request of any caller.
PollRead ==
    /\ InFlight < MaxInFlight
    /\ served.polls < MaxPolls
    /\ served' = [served EXCEPT !.polls = @ + 1]
    /\ StatusRead
    /\ UNCHANGED <<client, loop>>

\* The queries to the rendering service, the update and the response.
PollFinish(outcomes) ==
    /\ poll.pc = "read"
    /\ IF poll.snap.hasParts
       THEN /\ project' = SplitUpdate(project, poll.snap, outcomes)
            /\ resp' = SplitResponse(poll.snap, outcomes)
       ELSE /\ project' = LegacyUpdate(project, poll.snap, outcomes[1])
            /\ resp' = LegacyResponse(poll.snap, outcomes[1])
    /\ poll' = IdlePoll
    /\ UNCHANGED <<issued, wh, trigger, client, served, numScenes, sceneDuration, loop>>

\* One query outcome per part (the first one serves the single job)
OutcomeChoices(snap) ==
    [1..(IF snap.hasParts /\ Len(snap.renderParts) > 0
         THEN Len(snap.renderParts) ELSE 1) -> Outcomes]

Poll ==
    \/ PollRead
    \/ \E outcomes \in OutcomeChoices(poll.snap) : PollFinish(outcomes)


(* -------------- status endpoint (variant without update) --------------- *)

\* Whether this variant queries the rendering service for the part: it
\* does for every part that is neither done nor failed.
QueriesV2(p) == p.status \notin {"done", "error"}

RECURSIVE SumProgressV2(_, _, _)
SumProgressV2(parts, outcomes, i) ==
    IF i = 0 THEN 0
    ELSE SumProgressV2(parts, outcomes, i - 1)
            + (IF parts[i].status = "done" THEN 100
               ELSE IF QueriesV2(parts[i]) THEN OverallProgress(outcomes[i])
               ELSE 0)

\* The response of this variant for a split project (0 / 0 is not a number)
SplitResponseV2(snap, outcomes) ==
    LET parts == snap.renderParts IN
    [NoResponse EXCEPT
        !.status = snap.status,
        !.progress = IF Len(parts) > 0
                     THEN SumProgressV2(parts, outcomes, Len(parts)) \div Len(parts)
                     ELSE NoProgress,
        !.observed = [i \in DOMAIN parts |->
                         IF QueriesV2(parts[i]) THEN outcomes[i] ELSE "none"]]

\* The queries and the response of this variant; only the single-job path
\* updates the project row.
PollFinishV2(outcomes) ==
    /\ poll.pc = "read"
    /\ IF poll.snap.hasParts
       THEN /\ project' = project
            /\ resp' = SplitResponseV2(poll.snap, outcomes)
       ELSE /\ project' = LegacyUpdate(project, poll.snap, outcomes[1])
            /\ resp' = LegacyResponse(poll.snap, outcomes[1])
    /\ poll' = IdlePoll
    /\ UNCHANGED <<issued, wh, trigger, client, served, numScenes, sceneDuration, loop>>

(* ------------------------------- client -------------------------------- *)

\* The page loads the project row, or receives it over the realtime channel.
ClientSync ==
    /\ client.pc = "idle"
    /\ InFlight < MaxInFlight
    /\ served.resets < MaxResets
    /\ client' = [pc |-> "loaded", snap |-> project]
    /\ UNCHANGED <<project, issued, wh, poll, trigger, resp, served, numScenes, sceneDuration, loop>>

\* LoopAfter without clearInterval
LoopAfterKeepsInterval(lp, data) ==
    IF lp.inFlight = 0 THEN lp
    ELSE IF data.status # "rendering"
         THEN [lp EXCEPT !.inFlight = @ - 1, !.rendering = FALSE, !.stopped = TRUE]
    ELSE [lp EXCEPT !.inFlight = @ - 1]

\* What the callback does with the interval when the response answers one
\* of its requests: a status other than rendering clears the interval and
\* the rendering flag.
LoopAfter(lp, data) ==
    IF lp.inFlight = 0 THEN lp
    ELSE IF data.status # "rendering"
         THEN [lp EXCEPT !.inFlight = @ - 1, !.active = FALSE,
                         !.rendering = FALSE, !.stopped = TRUE]
    ELSE [lp EXCEPT !.inFlight = @ - 1]

\* The poll callback of the page takes the status response.
ClientReceive ==
    /\ resp # NoResponse
    /\ resp' = NoResponse
    /\ client' = IF client.pc = "loaded"
                 THEN [client EXCEPT !.snap = ClientAfter(@, resp, resp.withParts)]
                 ELSE client
    /\ loop' = LoopAfter(loop, resp)
    /\ UNCHANGED <<project, issued, wh, poll, trigger, served, numScenes, sceneDuration>>

\* The effect of the page runs for a project that is rendering: it sets the
\* rendering flag and the interval.
LoopStart ==
    /\ client.pc = "loaded"
    /\ ~loop.active
    /\ client.snap.status = "rendering" \/ loop.rendering
    /\ loop' = [loop EXCEPT !.active = TRUE, !.rendering = TRUE, !.stopped = FALSE]
    /\ UNCHANGED <<project, issued, wh, poll, trigger, client, resp, served,
                   numScenes, sceneDuration>>

\* The interval fires: the callback sends a status request.
LoopTick ==
    /\ loop.active
    /\ loop.inFlight < MaxLoopRequests
    /\ loop' = [loop EXCEPT !.inFlight = @ + 1]
    /\ UNCHANGED <<project, issued, wh, poll, trigger, client, resp, served,
                   numScenes, sceneDuration>>

\* The realtime channel delivers the updated project row to the page: the
\* row replaces the local project, and a row that is done and has a video
\* ends the local render, so that the effect sets no interval again.
LoopRealtime ==
    /\ client.pc = "loaded"
    /\ client.snap # project
    /\ client' = [client EXCEPT !.snap = project]
    /\ loop' = IF project.status = "done" /\ project.video_url # NoUrl
               THEN [loop EXCEPT !.active = FALSE, !.rendering = FALSE]
               ELSE loop
    /\ UNCHANGED <<project, issued, wh, poll, trigger, resp, served,
                   numScenes, sceneDuration>>

\* The status endpoint takes up a request of the interval.
LoopPollRead ==
    /\ loop.inFlight > (IF poll.pc = "idle" THEN 0 ELSE 1)
    /\ StatusRead
    /\ UNCHANGED <<served, client, loop>>

\* ClientReset with the parts written back under the status the page holds
ClientResetKeepsStatus ==
    /\ client.pc = "loaded"
    /\ client.snap.status \in {"rendering", "error"}
    /\ project' = [project EXCEPT
          !.status = "ready",
          !.renderId = client.snap.renderId,
          !.hasParts = TRUE,
          !.renderParts = [i \in DOMAIN client.snap.renderParts |->
                              [client.snap.renderParts[i] EXCEPT !.progress = 0]]]
    /\ served.resets < MaxResets
    /\ served' = [served EXCEPT !.resets = @ + 1]
    /\ client' = ClosedPage
    /\ UNCHANGED <<issued, wh, poll, trigger, resp, numScenes, sceneDuration, loop>>

\* The Reset Status button: one update built from the page's copy of the
\* row, then a reload of the page.
ClientReset ==
    /\ client.pc = "loaded"
    /\ client.snap.status \in {"rendering", "error"}
    /\ project' = [project EXCEPT
          !.status = "ready",
          !.renderId = client.snap.renderId,
          !.hasParts = TRUE,
          !.renderParts = [i \in DOMAIN client.snap.renderParts |->
                              [client.snap.renderParts[i] EXCEPT !.status = "error",
                                                                 !.progress = 0]]]
    /\ served.resets < MaxResets
    /\ served' = [served EXCEPT !.resets = @ + 1]
    /\ client' = ClosedPage
    /\ UNCHANGED <<issued, wh, poll, trigger, resp, numScenes, sceneDuration, loop>>

Client == ClientSync \/ ClientReceive \/ ClientReset

Next ==
    \/ Webhook
    \/ Poll
    \/ Client
    \/ Post

Spec == Init /\ [][Next]_vars

(* The parallel dispatch in place of the part trigger. *)

InitGet ==
    /\ numScenes \in {SmallProject, HugeProject}
    /\ project = NewProject
    /\ issued = 0
    /\ served = [webhooks |-> 0, polls |-> 0, resets |-> 0]
    /\ wh = IdleWebhook
    /\ poll = IdlePoll
    /\ trigger = IdlePost
    /\ client = ClosedPage
    /\ resp = NoResponse
    /\ sceneDuration = NoDuration
    /\ loop = IdleLoop

NextGet ==
    \/ Webhook
    \/ Get
    \/ Poll
    \/ Client

SpecGet == InitGet /\ [][NextGet]_vars

(* Both trigger paths over every scene count. *)

InitChunker ==
    /\ numScenes \in 1..MaxScenes
    /\ project = NewProject
    /\ issued = 0
    /\ served = [webhooks |-> 0, polls |-> 0, resets |-> 0]
    /\ wh = IdleWebhook
    /\ poll = IdlePoll
    /\ trigger = IdlePost
    /\ client = ClosedPage
    /\ resp = NoResponse
    /\ sceneDuration = NoDuration
    /\ loop = IdleLoop

NextChunker ==
    \/ Get
    \/ Post

SpecChunker == InitChunker /\ [][NextChunker]_vars

(* The three trigger paths over scene counts and scene durations. *)

\* Scene durations: null, seconds, and milliseconds
Durations == {NoDuration, 1, 5, 300, LongDuration}

InitFrames ==
    /\ numScenes \in {1, SmallProject, LargeProject, HugeProject}
    /\ sceneDuration \in Durations
    /\ loop = IdleLoop
    /\ project = NewProject
    /\ issued = 0
    /\ served = [webhooks |-> 0, polls |-> 0, resets |-> 0]
    /\ wh = IdleWebhook
    /\ poll = IdlePoll
    /\ trigger = IdlePost
    /\ client = ClosedPage
    /\ resp = NoResponse

NextFrames ==
    \/ Post
    \/ Get
    \/ GetV1

SpecFrames == InitFrames /\ [][NextFrames]_vars

(* The status endpoint, in its two variants, over the rows the type of the  *)
(* settings column admits for a split project that is rendering.            *)

StoredParts(k) ==
    {[part |-> k, status |-> st, renderId |-> r,
      url |-> IF st = "done" THEN VideoUrl(k) ELSE NoUrl, progress |-> NoProgress] :
        st \in {"idle", "rendering", "done", "error"}, r \in {NoRender, k}}

StoredRows ==
    {[NewProject EXCEPT !.status = "rendering", !.hasParts = TRUE,
                        !.renderParts = <<p1, p2>>] :
        p1 \in StoredParts(1), p2 \in StoredParts(2)}

InitStatus ==
    /\ numScenes = LargeProject
    /\ project \in StoredRows
    /\ issued = 2
    /\ served = [webhooks |-> 0, polls |-> 0, resets |-> 0]
    /\ wh = IdleWebhook
    /\ poll = IdlePoll
    /\ trigger = IdlePost
    /\ client = ClosedPage
    /\ resp = NoResponse
    /\ sceneDuration = NoDuration
    /\ loop = IdleLoop

NextStatus ==
    \/ Poll
    \/ \E outcomes \in OutcomeChoices(poll.snap) : PollFinishV2(outcomes)
    \/ ClientReceive

SpecStatus == InitStatus /\ [][NextStatus]_vars

(* The part trigger called with any part selector, and the deliveries of *)
(* the rendering service.                                                  *)

PostRequest ==
    \/ \E partNumber \in ApiSelectors(numScenes) : PostRead(partNumber)
    \/ PostSubmit
    \/ PostFail
    \/ PostWrite

NextApi ==
    \/ PostRequest
    \/ Webhook

SpecApi == Init /\ [][NextApi]_vars

(* The poll loop of a page that has loaded a split project which is      *)
(* rendering, against the status endpoint.                                 *)

InitLoop ==
    /\ numScenes = LargeProject
    /\ project \in StoredRows
    /\ issued = 2
    /\ served = [webhooks |-> 0, polls |-> 0, resets |-> 0]
    /\ wh = IdleWebhook
    /\ poll = IdlePoll
    /\ trigger = IdlePost
    /\ client = [pc |-> "loaded", snap |-> project]
    /\ resp = NoResponse
    /\ sceneDuration = NoDuration
    /\ loop = IdleLoop

NextLoop ==
    \/ LoopStart
    \/ LoopTick
    \/ LoopRealtime
    \/ LoopPollRead
    \/ \E outcomes \in OutcomeChoices(poll.snap) : PollFinish(outcomes)
    \/ ClientReceive

SpecLoop == InitLoop /\ [][NextLoop]_vars

\* The outcomes of a pass when every job has finished at the rendering
\* service, with success or with a fatal error
TerminalChoices(snap) ==
    [1..(IF snap.hasParts /\ Len(snap.renderParts) > 0
         THEN Len(snap.renderParts) ELSE 1) -> {"done", "fatal"}]

\* The interval keeps firing, every request is served and answered, and
\* passes that find every job finished keep coming.
SpecLoopFair ==
    /\ SpecLoop
    /\ WF_vars(LoopStart)
    /\ WF_vars(LoopTick)
    /\ WF_vars(LoopPollRead)
    /\ WF_vars(ClientReceive)
    /\ SF_vars(\E outcomes \in TerminalChoices(poll.snap) : PollFinish(outcomes))

(* The webhook endpoint open to any sender, beside the part trigger. *)

NextWebhook ==
    \/ WebhookRequest
    \/ WebhookWrite
    \/ Post

SpecWebhook == Init /\ [][NextWebhook]_vars

(* ============================== claims ================================= *)

\* Steps of the handlers, as seen from outside
WebhookCommits == wh.pc = "read" /\ wh'.pc = "idle"
PollCommits == poll.pc = "read" /\ poll'.pc = "idle"
PartTriggerCommits == trigger.pc = "submitted" /\ trigger'.pc = "idle" /\ trigger.part # 0
PartTriggerFails == trigger.pc = "marked" /\ trigger'.pc = "idle" /\ trigger.part # 0

\* The index of the part a webhook in flight is about (0 when there is none)
WebhookPart == IF wh.snap.hasParts THEN FindIndex(wh.snap.renderParts, wh.renderId) ELSE 0

\* A webhook delivered after every earlier request has finished
Delivered == WebhookCommits /\ wh.snap = project /\ WebhookPart # 0

\* C1: for one part and one jobHandle the final part status does not depend
\* on the delivery order of a success and an error/timeout webhook: success
\* delivered after error leaves the part done, and error or timeout delivered
\* after success leaves the part done with its resultUrl unchanged.
C1_OrderIndependence ==
    [][Delivered =>
          /\ (wh.type = "success" /\ project.renderParts[WebhookPart].status = "error")
                => project'.renderParts[WebhookPart].status = "done"
          /\ (wh.type = "error" /\ project.renderParts[WebhookPart].status = "done")
                => /\ project'.renderParts[WebhookPart].status = "done"
                   /\ project'.renderParts[WebhookPart].url
                         = project.renderParts[WebhookPart].url]_vars

\* An entry as a webhook leaves it, in a behaviour without reset
ChangedByWebhook(p) == p.status \in {"done", "error"} /\ served.resets = 0

\* C3: the write of a poll pass does not revert a part that a webhook
\* changed between the pass's read and its write: a part whose status or url
\* differs from what the pass read does not get back the status and url the
\* pass read.
C3_PollMergesLatest ==
    [][(PollCommits /\ poll.snap.hasParts /\ project.hasParts) =>
          \A j \in DOMAIN poll.snap.renderParts \cap DOMAIN project.renderParts :
              (/\ ChangedByWebhook(project.renderParts[j])
               /\ \/ project.renderParts[j].status # poll.snap.renderParts[j].status
                  \/ project.renderParts[j].url # poll.snap.renderParts[j].url)
                  => ~(/\ j \in DOMAIN project'.renderParts
                       /\ project'.renderParts[j].status = poll.snap.renderParts[j].status
                       /\ project'.renderParts[j].url = poll.snap.renderParts[j].url)]_vars

\* C4: re-dispatching part k changes only part k's entry: every other part's
\* status, jobHandle and url after the write equal the values persisted
\* just before it.
C4_RedispatchTouchesOnePart ==
    [][(PartTriggerCommits /\ project.hasParts) =>
          \A j \in DOMAIN project.renderParts :
              project.renderParts[j].part # trigger.part =>
                  /\ j \in DOMAIN project'.renderParts
                  /\ project'.renderParts[j].status = project.renderParts[j].status
                  /\ project'.renderParts[j].renderId = project.renderParts[j].renderId
                  /\ project'.renderParts[j].url = project.renderParts[j].url]_vars

\* C5: in every reachable state of a split project, project status done
\* implies that every part of renderParts has status done.
C5_DoneMeansAllPartsDone ==
    (project.hasParts /\ project.status = "done") => AllDone(project.renderParts)

\* A sibling of part k that is still rendering or is done
LiveSibling(parts, k) ==
    \E i \in DOMAIN parts : i # k /\ parts[i].status \in {"rendering", "done"}

\* C6: when one part of a split project fails (error/timeout webhook, or
\* failed re-dispatch submission) while a sibling part is still rendering or
\* is done, the project status is not set to error.
C6_PartialFailureKeepsProject ==
    [][/\ (Delivered /\ wh.type = "error"
              /\ LiveSibling(project.renderParts, WebhookPart))
          => project'.status # "error"
       /\ (PartTriggerFails /\ project.hasParts
              /\ LiveSibling(project.renderParts, trigger.part))
          => project'.status # "error"]_vars

\* A poll pass that nothing else wrote into between its read and its write
QuietPass == PollCommits /\ poll.snap = project

\* C8: a poll query that fails for a network or service reason changes
\* neither the status of the queried part nor the project status, in the
\* split path and in the single-job path.
C8_TransientFailureChangesNothing ==
    [][QuietPass =>
          \A i \in DOMAIN resp'.observed :
              resp'.observed[i] = "throw" =>
                  /\ project'.status = project.status
                  /\ project.hasParts =>
                        project'.renderParts[i].status = project.renderParts[i].status]_vars

\* C9: when a poll query for a rendering part reports that the job can no
\* longer be found, that part's persisted status is error after the pass.
C9_LostJobIsError ==
    [][(PollCommits /\ poll.snap.hasParts) =>
          \A i \in DOMAIN resp'.observed :
              resp'.observed[i] = "notfound" =>
                  /\ project'.hasParts
                  /\ i \in DOMAIN project'.renderParts
                  /\ project'.renderParts[i].status = "error"]_vars

\* A part recorded as rendering without a job handle
Zombie(p) == p.status = "rendering" /\ p.renderId = NoRender

C10_AcceptedBatchesPersisted ==
    [][(trigger.pc = "dispatching" /\ trigger'.pc = "idle" /\ ShouldSplit(numScenes)) =>
          \A k \in DOMAIN trigger.results :
              trigger.results[k] > 0 =>
                  /\ project'.hasParts
                  /\ \E i \in DOMAIN project'.renderParts :
                        /\ project'.renderParts[i].part = k
                        /\ project'.renderParts[i].status = "rendering"
                        /\ project'.renderParts[i].renderId = trigger.results[k]]_vars

\* C2: delivering the same success webhook twice yields exactly the
\* persisted project record that delivering it once yields: applied to the
\* row the first delivery left, the handler's update leaves that row.
C2_WebhookReplay ==
    \A r \in Issued :
        LET once == SuccessUpdate(project, project, r)
            twice == SuccessUpdate(once, once, r)
        IN  twice = once

\* A success webhook has marked a part of a split project done, and its
\* second delivery finds the row the first one left.
C2_Witness ==
    /\ project.hasParts
    /\ served.webhooks = 2
    /\ wh.pc = "read" /\ wh.type = "success" /\ wh.snap = project
    /\ WebhookPart # 0
    /\ project.renderParts[WebhookPart].status = "done"
    /\ project.renderParts[WebhookPart].url = VideoUrl(wh.renderId)
    /\ Len(project.renderParts) > 1
    /\ AllDone(project.renderParts)
    /\ project.status = "done"
    /\ project.video_url = NoUrl

\* C11: when the submission of part k to the rendering service fails, part
\* k's persisted entry has status error after the trigger returns.
C11_FailedSubmissionMarksPart ==
    [][PartTriggerFails =>
          /\ project'.hasParts
          /\ \E i \in DOMAIN project'.renderParts :
                /\ project'.renderParts[i].part = trigger.part
                /\ project'.renderParts[i].status = "error"]_vars

\* A request whose signature header is the HMAC of its body under the
\* shared secret
Authentic(type, renderId, signature) ==
    signature = Hmac(WebhookSecret, Body(type, renderId))

\* C12: a webhook request with a missing or invalid signature is answered
\* with an unauthorized response and leaves the persisted project record
\* (status, video_url, renderParts) as it was, for every payload type; the
\* handler has returned, so nothing of the request is written later.
C12_InvalidSignatureRejected ==
    [][\A type \in WebhookTypes, renderId \in Issued :
          \A signature \in Signatures(type, renderId) :
              (/\ ~Authentic(type, renderId, signature)
               /\ \/ WebhookReject(type, renderId, signature)
                  \/ WebhookRead(type, renderId, signature))
                  => /\ wh'.answer = Unauthorized
                     /\ wh'.pc = "idle"
                     /\ project' = project]_vars

\* A request was answered unauthorized while a part of the split project
\* was rendering under a render id the request could name.
C12_Witness ==
    /\ wh.answer = Unauthorized
    /\ wh.pc = "idle"
    /\ project.hasParts
    /\ \E i \in DOMAIN project.renderParts :
          /\ project.renderParts[i].status = "rendering"
          /\ project.renderParts[i].renderId \in Issued

\* The chunker's batches for the project's scenes: ceil(N/M) of them, batch
\* k is scenes[(k-1)*M .. k*M), and in order they make up the scene list.
ChunksAreRanges ==
    LET chunks == Chunks(numScenes)
        M == MAX_SCENES_GET
    IN  /\ Len(chunks) = Ceil(numScenes, M)
        /\ \A k \in DOMAIN chunks :
              /\ chunks[k].from = (k - 1) * M
              /\ chunks[k].to = (IF k * M < numScenes THEN k * M ELSE numScenes)
              /\ chunks[k].from < chunks[k].to
        /\ chunks[1].from = 0
        /\ chunks[Len(chunks)].to = numScenes
        /\ \A k \in 1..(Len(chunks) - 1) : chunks[k].to = chunks[k + 1].from

\* The parallel dispatch persists the parts of its batches
DispatchPersists ==
    /\ trigger.pc = "dispatching" /\ trigger'.pc = "idle"
    /\ ShouldSplit(numScenes)
    /\ project'.hasParts

\* C13: for every scene count N >= 1 the chunker produces ceil(N/M) batches,
\* batch k is scenes[(k-1)*M .. k*M), the batches in order make up the scene
\* list without gap or overlap, and the part trigger renders the same range
\* when part k of the split project is re-dispatched alone.
C13_ChunksPartition ==
    [][/\ ChunksAreRanges
       /\ DispatchPersists =>
             \A k \in DOMAIN project'.renderParts :
                 SliceOfPart(numScenes, project'.renderParts[k].part)
                     = Chunks(numScenes)[k]]_vars

\* The trigger without part selector persists its accepted submission
FullTriggerCommits == trigger.pc = "submitted" /\ trigger'.pc = "idle" /\ trigger.part = 0

\* C14: after a trigger without part selector is accepted for a project
\* with N <= M ready scenes, the persisted project is in single-job mode: it
\* carries the handle of the one submitted job and no renderParts collection,
\* whatever preceded the trigger.
C14_SmallProjectIsLegacy ==
    [][(FullTriggerCommits /\ numScenes <= MAX_SCENES) =>
          /\ project'.renderId = trigger.renderId
          /\ trigger.renderId = issued
          /\ ~project'.hasParts]_vars

\* minFrameGranularity and hardJobCountCeiling of the rendering service
MinFrameGranularity == 60
HardJobCountCeiling == 200

\* C15: for every job submitted by any trigger path, with totalFrames >= 1,
\* the frame-chunk size passed to the rendering service is at least 60 and
\* ceil(totalFrames / frameChunkSize) is at most 200.
C15_FrameChunkBounds ==
    (trigger.framesPerLambda # 0 /\ trigger.totalFrames >= 1) =>
        /\ trigger.framesPerLambda >= MinFrameGranularity
        /\ Ceil(trigger.totalFrames, trigger.framesPerLambda) <= HardJobCountCeiling

\* The part trigger has submitted a job of few frames, for which the floor
\* decides, and one of many frames, for which the ceiling of 200 jobs decides.
C15_Witness ==
    /\ trigger.pc = "submitted"
    /\ trigger.totalFrames >= 1
    /\ trigger.totalFrames < MinFrameGranularity
    /\ trigger.framesPerLambda = MinFrameGranularity

\* C16: in every reachable state, every part with status done has a
\* non-empty resultUrl and progress equal to 1 (100 percent), whichever
\* channel recorded the completion.
C16_DonePartHasUrlAndProgress ==
    project.hasParts =>
        \A i \in DOMAIN project.renderParts :
            project.renderParts[i].status = "done" =>
                /\ project.renderParts[i].url # NoUrl
                /\ project.renderParts[i].progress = 100

\* C17: in every reachable state, every part with status rendering has a
\* non-empty jobHandle: no operation (trigger, re-dispatch, webhook, poll,
\* reset) persists a part as rendering without a job handle.
C17_RenderingPartHasHandle ==
    project.hasParts =>
        \A i \in DOMAIN project.renderParts :
            project.renderParts[i].status = "rendering" =>
                project.renderParts[i].renderId \in Issued

\* After a reset that wrote back an entry without render id as failed, a
\* part has been dispatched again and is rendering under its new render id.
C17_Witness ==
    /\ served.resets = 1
    /\ project.hasParts
    /\ \E i \in DOMAIN project.renderParts :
          /\ project.renderParts[i].status = "rendering"
          /\ project.renderParts[i].renderId \in Issued
    /\ \E j \in DOMAIN project.renderParts :
          /\ project.renderParts[j].status = "error"
          /\ project.renderParts[j].renderId = NoRender

\* C18: a trigger that names a part whose persisted status is done or
\* rendering leaves that part's status, jobHandle and resultUrl unchanged.
C18_OnlyIdleOrErrorIsDispatched ==
    [][(PartTriggerCommits /\ project.hasParts) =>
          \A i \in DOMAIN project.renderParts :
              (/\ project.renderParts[i].part = trigger.part
               /\ project.renderParts[i].status \in {"done", "rendering"})
                  => /\ i \in DOMAIN project'.renderParts
                     /\ project'.renderParts[i].status = project.renderParts[i].status
                     /\ project'.renderParts[i].renderId = project.renderParts[i].renderId
                     /\ project'.renderParts[i].url = project.renderParts[i].url]_vars

\* What a part of a status response contributes to the mean, in percent:
\* 100 when it is done after the pass, 0 when it is failed, else the
\* progress reported for it
Contribution(detail) ==
    IF detail.status = "done" THEN 100
    ELSE IF detail.status = "error" THEN 0
    ELSE detail.progress

RECURSIVE SumContributions(_, _)
SumContributions(details, i) ==
    IF i = 0 THEN 0
    ELSE SumContributions(details, i - 1) + Contribution(details[i])

\* C19: the overall progress returned by the status endpoint for a split
\* project is the arithmetic mean over all parts of the part's contribution
\* (done after the pass 1, error 0, rendering its reported progress), and
\* the reported project status is not done while a part is still rendering.
C19_ProgressIsMeanOfParts ==
    [][(PollCommits /\ poll.snap.hasParts /\ Len(poll.snap.renderParts) > 0) =>
          /\ resp'.progress =
                SumContributions(resp'.parts, Len(resp'.parts)) \div Len(resp'.parts)
          /\ (\E i \in DOMAIN resp'.parts : resp'.parts[i].status = "rendering")
                => resp'.status # "done"]_vars

\* The Reset Status button writes the row, from a page whose copy is current
ResetCommits ==
    /\ client.pc = "loaded" /\ client'.pc = "idle"
    /\ served'.resets # served.resets
    /\ client.snap = project

\* C20: the reset leaves every part's resultUrl unchanged and changes the
\* status only of parts that were rendering or error: a part that was done
\* before the reset is still done after it, and no part is rendering after it.
C20_ResetKeepsCompletedParts ==
    [][(ResetCommits /\ project.hasParts) =>
          /\ project'.hasParts
          /\ \A i \in DOMAIN project.renderParts :
                /\ i \in DOMAIN project'.renderParts
                /\ project'.renderParts[i].url = project.renderParts[i].url
                /\ project.renderParts[i].status = "done"
                      => project'.renderParts[i].status = "done"
          /\ \A i \in DOMAIN project'.renderParts :
                project'.renderParts[i].status # "rendering"]_vars

\* A status request reaches the endpoint
StatusRequested == poll.pc = "idle" /\ resp = NoResponse /\ (poll' # poll \/ resp' # resp)

\* C21: a status request for a project whose persisted status is done or
\* error returns at once: it issues no query to the rendering service and
\* performs no write to the project record.
C21_TerminalProjectShortCircuits ==
    [][(StatusRequested /\ project.status \in {"done", "error"}) =>
          /\ poll'.pc = "idle"
          /\ resp'.status = project.status
          /\ resp'.observed = <<>>
          /\ project' = project]_vars

\* A status request for a split project that is done or failed has been
\* answered without a pass over its parts.
C21_Witness ==
    /\ project.hasParts
    /\ Len(project.renderParts) > 1
    /\ project.status \in {"done", "error"}
    /\ resp.status = project.status
    /\ resp.observed = <<>>
    /\ poll.pc = "idle"

\* The page sends a status request
LoopIssues == loop'.inFlight = loop.inFlight + 1

\* The interval of the page is cleared
LoopStops == loop.active /\ ~loop'.active

C23_OneRequestInFlight == loop.inFlight <= 1

\* The page takes a status response that lists the parts
ReceivesParts ==
    /\ resp # NoResponse
    /\ resp' = NoResponse
    /\ resp.withParts
    /\ client.pc = "loaded"
    /\ client.snap.hasParts
    /\ Len(client.snap.renderParts) = Len(resp.parts)

\* Part i was rendering with a reported progress in the response the page
\* took before, and is rendering in the response it takes now; the job of
\* the part is the same one.
StaysRendering(i) ==
    /\ client.snap.renderParts[i].status = "rendering"
    /\ client.snap.renderParts[i].progress # NoProgress
    /\ resp.parts[i].status = "rendering"
    /\ project.renderParts[i].status = "rendering"
    /\ project.renderParts[i].renderId # NoRender

\* C28: while a part stays rendering under the same job, the progress the
\* status endpoint reports for it in successive responses does not decrease
\* and lies between 0 and 1 (0 and 100 percent), also across a pass whose
\* query to the rendering service fails.
C28_PartProgressMonotone ==
    [][ReceivesParts =>
          \A i \in DOMAIN resp.parts :
              StaysRendering(i) =>
                  /\ resp.parts[i].progress \in 0..100
                  /\ resp.parts[i].progress >= client.snap.renderParts[i].progress]_vars

\* Every part of the split project has a job at the rendering service
AllPartsRunning ==
    /\ project.status = "rendering"
    /\ project.hasParts
    /\ \A i \in DOMAIN project.renderParts :
          /\ project.renderParts[i].status = "rendering"
          /\ project.renderParts[i].renderId # NoRender

\* C29: when the page keeps polling a split project and every job has
\* finished at the rendering service, with success or with a fatal error,
\* a status response eventually reports a status other than rendering.
C29_LoopEventuallyStops ==
    AllPartsRunning ~> (resp # NoResponse /\ resp.status # "rendering")

\* C24: the project-level videoUrl is set only by the completion of a
\* single job: in a project that needs more than one job, where every job
\* is the job of a part, no webhook and no status pass sets it, also not a
\* success webhook that is delivered before the trigger has persisted the
\* renderParts collection.
C24_VideoUrlOnlyFromSingleJob ==
    numScenes > MAX_SCENES => project.video_url = NoUrl

\* C25: every status response for a split project is a snapshot of one
\* persisted state, the record as it stands after the write of the pass: the
\* project status and the part statuses it reports are those of that record,
\* so no response reports every part done together with project status
\* rendering.
C25_ResponseIsSnapshot ==
    [][(PollCommits /\ poll.snap.hasParts /\ ~AllDone(poll.snap.renderParts)
           /\ resp'.withParts /\ Len(resp'.parts) > 0) =>
          /\ resp'.status = project'.status
          /\ ~(AllDone(resp'.parts) /\ resp'.status = "rendering")]_vars

\* C26: across triggers, re-dispatches, webhooks, status passes and resets
\* no entry is removed from the renderParts collection and no entry's part
\* number changes.
C26_PartIdentityImmutable ==
    [][project.hasParts =>
          \A i \in DOMAIN project.renderParts :
              /\ project'.hasParts
              /\ i \in DOMAIN project'.renderParts
              /\ project'.renderParts[i].part = project.renderParts[i].part]_vars

\* C27: a webhook (success, error or timeout) for a split project whose
\* renderId equals no part's recorded renderId, such as the notification of
\* a job superseded by a re-dispatch, changes no part and leaves the project
\* status as it is.
C27_UnmatchedWebhookChangesNothing ==
    [][(WebhookCommits /\ wh.snap.hasParts /\ WebhookPart = 0) => project' = project]_vars

\* A webhook about an issued job that no part of the current row records is
\* being handled (the part was dispatched again under a newer job).
C27_Witness ==
    /\ wh.pc = "read"
    /\ wh.snap = project
    /\ project.hasParts
    /\ Len(project.renderParts) > 1
    /\ wh.renderId \in 1..issued
    /\ WebhookPart = 0
    /\ \E i \in DOMAIN project.renderParts : project.renderParts[i].renderId > wh.renderId

\* C30: in every reachable state of a split project the renderParts
\* collection is ordered and dense: the entry at 0-based index i has part
\* number i + 1 (here: the entry at index i of the sequence has part number
\* i), so part numbers are unique and the write of a re-dispatch to index
\* partNumber - 1 updates the entry whose part number is partNumber.
C30_PartsOrderedAndDense ==
    project.hasParts =>
        \A i \in DOMAIN project.renderParts : project.renderParts[i].part = i

====
